---- MODULE Spec2Model ----
(***************************************************************************)
(* ReconModule: wayback.py collects the archived URLs of each domain of a  *)
(* list from the CDX index and files them by kind; endpoint.py and         *)
(* parameter.py read wayback_urls.txt back and derive endpoints.txt and    *)
(* parameters.txt.                                                         *)
(*                                                                         *)
(* A Python str is modelled as a sequence of one-character strings, so     *)
(* that suffix tests, splitting, trimming, replacement and the order used  *)
(* by sorted() are computed as the code computes them.  urlparse and       *)
(* parse_qs follow CPython 3.10+ (the query separator is '&' only); the    *)
(* alphabet holds no '%', so percent-decoding never applies.               *)
(***************************************************************************)
EXTENDS Integers, Sequences, FiniteSets, TLC

VARIABLES domains, cdx, fs, fetched, script, pc, idx, total, log, exitCode,
          arg, ret, acc

vars == <<domains, cdx, fs, fetched, script, pc, idx, total, log, exitCode,
          arg, ret, acc>>

(***************************************************************************)
(* Characters and str operations                                           *)
(***************************************************************************)

\* The characters of the model in ascending code-point order: Python
\* compares str values code point by code point.
Ascii ==
    <<" ", "#", "&", "+", ".", "/">>
    \o <<"0", "1", "2", "3", "4", "5", "6", "7", "8", "9">>
    \o <<":", ";", "=", "?">>
    \o <<"A", "B", "C", "D", "E", "F", "G", "H", "I", "J", "K", "L", "M",
         "N", "O", "P", "Q", "R", "S", "T", "U", "V", "W", "X", "Y", "Z">>
    \o <<"[", "\\", "]", "_">>
    \o <<"a", "b", "c", "d", "e", "f", "g", "h", "i", "j", "k", "l", "m",
         "n", "o", "p", "q", "r", "s", "t", "u", "v", "w", "x", "y", "z">>

Chars == {Ascii[i] : i \in 1..Len(Ascii)}

Ord == [c \in Chars |-> CHOOSE i \in 1..Len(Ascii) : Ascii[i] = c]

UpperCase == <<"A","B","C","D","E","F","G","H","I","J","K","L","M","N","O","P","Q","R","S","T","U","V","W","X","Y","Z">>

LowerCase == <<"a","b","c","d","e","f","g","h","i","j","k","l","m","n","o","p","q","r","s","t","u","v","w","x","y","z">>

\* str.lower() on one character
LowerChar ==
    [c \in Chars |->
        IF \E i \in 1..Len(UpperCase) : UpperCase[i] = c
        THEN LowerCase[CHOOSE i \in 1..Len(UpperCase) : UpperCase[i] = c]
        ELSE c]

\* str.lower()
Lower(s) == [i \in 1..Len(s) |-> LowerChar[s[i]]]

\* The whitespace of the alphabet (str.strip() and str.isspace())
Whitespace == {" "}

\* F(v), with v evaluated once however often F uses it
Bind(v, F(_)) == CHOOSE r \in {F(x) : x \in {v}} : TRUE

\* s.startswith(p)
StartsWith(s, p) == Len(p) <= Len(s) /\ SubSeq(s, 1, Len(p)) = p

\* s.endswith(p)
EndsWith(s, p) == Len(p) <= Len(s) /\ SubSeq(s, Len(s) - Len(p) + 1, Len(s)) = p

\* s.find(sub) + 1: the first position of sub in s, 0 when absent
Find(s, sub) ==
    Bind(s, LAMBDA t :
        LET At(i) == SubSeq(t, i, i + Len(sub) - 1) = sub
            last  == Len(t) - Len(sub) + 1
        IN  IF \E i \in 1..last : At(i)
            THEN CHOOSE i \in 1..last : At(i) /\ \A j \in 1..(i - 1) : ~At(j)
            ELSE 0)

\* s.rfind(sub) + 1: the last position of sub in s, 0 when absent
RFind(s, sub) ==
    Bind(s, LAMBDA t :
        LET At(i) == SubSeq(t, i, i + Len(sub) - 1) = sub
            last  == Len(t) - Len(sub) + 1
        IN  IF \E i \in 1..last : At(i)
            THEN CHOOSE i \in 1..last : At(i) /\ \A j \in (i + 1)..last : ~At(j)
            ELSE 0)

\* sub in s
Contains(s, sub) == Find(s, sub) # 0

\* s.split(sep, 1)[0]
Before(s, sep) ==
    Bind(s, LAMBDA t : Bind(Find(t, sep), LAMBDA i :
        IF i = 0 THEN t ELSE SubSeq(t, 1, i - 1)))

\* s.split(sep, 1)[1], the empty str when sep is absent
After(s, sep) ==
    Bind(s, LAMBDA t : Bind(Find(t, sep), LAMBDA i :
        IF i = 0 THEN <<>> ELSE SubSeq(t, i + Len(sep), Len(t))))

\* s.split(sep)
RECURSIVE Split(_, _)
Split(s, sep) ==
    Bind(s, LAMBDA t : Bind(Find(t, sep), LAMBDA i :
        IF i = 0 THEN <<t>>
        ELSE <<SubSeq(t, 1, i - 1)>>
             \o Split(SubSeq(t, i + Len(sep), Len(t)), sep)))

\* s.replace(old, new)
RECURSIVE Replace(_, _, _)
Replace(s, old, new) ==
    Bind(s, LAMBDA t : Bind(Find(t, old), LAMBDA i :
        IF i = 0 THEN t
        ELSE SubSeq(t, 1, i - 1) \o new
             \o Replace(SubSeq(t, i + Len(old), Len(t)), old, new)))

\* s.strip(): the text from the first to the last character that is no
\* whitespace
Strip(s) ==
    Bind(s, LAMBDA t :
        LET keep == {i \in 1..Len(t) : t[i] \notin Whitespace}
        IN  IF keep = {} THEN <<>>
            ELSE SubSeq(t, CHOOSE i \in keep : \A j \in keep : i <= j,
                           CHOOSE i \in keep : \A j \in keep : j <= i))

\* a < b on str: the first differing code point decides, a proper prefix
\* sorts first
StrLess(a, b) ==
    \E k \in 1..Len(b) :
        /\ k <= Len(a) + 1
        /\ \A j \in 1..(k - 1) : a[j] = b[j]
        /\ (k = Len(a) + 1 \/ Ord[a[k]] < Ord[b[k]])

\* The elements of a list
Range(seq) == {seq[i] : i \in 1..Len(seq)}

\* sorted() of a set of str
RECURSIVE Sorted(_)
Sorted(S) ==
    Bind(S, LAMBDA T :
        IF T = {} THEN <<>>
        ELSE Bind(CHOOSE x \in T : \A y \in T : x = y \/ StrLess(x, y),
                  LAMBDA m : <<m>> \o Sorted(T \ {m})))

\* The text of a str, as used in file names
RECURSIVE Text(_)
Text(s) == IF s = <<>> THEN "" ELSE Head(s) \o Text(Tail(s))

\* Python's None: a value that no str equals
None == <<"None">>

\* bool(v) of a str or None
Truthy(v) == v # None /\ v # <<>>

(***************************************************************************)
(* wayback.py: the classifier                                              *)
(***************************************************************************)

\* file_extensions of has_file_extension
FileExtensions ==
    << <<".","p","d","f">>, <<".","d","o","c">>, <<".","d","o","c","x">>, <<".","x","l","s">>, <<".","x","l","s","x">>, <<".","p","p","t">>,
       <<".","p","p","t","x">>, <<".","t","x","t">>, <<".","x","m","l">>, <<".","j","s","o","n">>, <<".","c","s","v">>, <<".","z","i","p">>,
       <<".","r","a","r">>, <<".","t","a","r">>, <<".","g","z">>, <<".","7","z">>, <<".","m","p","3">>, <<".","m","p","4">>,
       <<".","a","v","i">>, <<".","m","o","v">>, <<".","w","m","v">>, <<".","f","l","v">>, <<".","s","w","f">>, <<".","p","h","p">>,
       <<".","a","s","p">>, <<".","a","s","p","x">>, <<".","j","s","p">>, <<".","c","f","m">>, <<".","p","l">>, <<".","p","y">>,
       <<".","r","b">>, <<".","s","q","l">>, <<".","d","b">>, <<".","b","a","k">>, <<".","b","a","c","k","u","p">>, <<".","o","l","d">>,
       <<".","t","m","p">>, <<".","l","o","g">>, <<".","c","o","n","f">>, <<".","c","f","g">>, <<".","i","n","i">>, <<".","y","a","m","l">>,
       <<".","y","m","l">>, <<".","p","r","o","p","e","r","t","i","e","s">>, <<".","j","s">>, <<".","e","x","e">>, <<".","h","t","m","l">> >>

\* static_extensions of is_static_resource
StaticExtensions ==
    << <<".","p","n","g">>, <<".","j","p","g">>, <<".","j","p","e","g">>, <<".","g","i","f">>, <<".","b","m","p">>, <<".","t","i","f","f">>,
       <<".","t","i","f">>, <<".","s","v","g">>, <<".","w","e","b","p">>, <<".","i","c","o">>, <<".","c","s","s">>, <<".","s","c","s","s">>,
       <<".","s","a","s","s">>, <<".","l","e","s","s">>, <<".","w","o","f","f">>, <<".","w","o","f","f","2">>, <<".","t","t","f">>, <<".","o","t","f">>,
       <<".","e","o","t">>, <<".","m","a","p">>, <<".","m","i","n",".","j","s">>, <<".","m","i","n",".","c","s","s">> >>

\* The list the classification loop of collect_wayback_urls walks to name
\* the bucket
BucketExtensions ==
    << <<".","p","d","f">>, <<".","d","o","c">>, <<".","d","o","c","x">>, <<".","x","l","s">>, <<".","x","l","s","x">>, <<".","p","p","t">>,
       <<".","p","p","t","x">>, <<".","t","x","t">>, <<".","x","m","l">>, <<".","j","s","o","n">>, <<".","c","s","v">>, <<".","z","i","p">>,
       <<".","r","a","r">>, <<".","t","a","r">>, <<".","g","z">>, <<".","7","z">>, <<".","m","p","3">>, <<".","m","p","4">>,
       <<".","a","v","i">>, <<".","m","o","v">>, <<".","w","m","v">>, <<".","f","l","v">>, <<".","s","w","f">>, <<".","p","h","p">>,
       <<".","a","s","p">>, <<".","a","s","p","x">>, <<".","j","s","p">>, <<".","c","f","m">>, <<".","p","l">>, <<".","p","y">>,
       <<".","r","b">>, <<".","s","q","l">>, <<".","d","b">>, <<".","b","a","k">>, <<".","b","a","c","k","u","p">>, <<".","o","l","d">>,
       <<".","t","m","p">>, <<".","l","o","g">>, <<".","c","o","n","f">>, <<".","c","f","g">>, <<".","i","n","i">>, <<".","y","a","m","l">>,
       <<".","y","m","l">>, <<".","p","r","o","p","e","r","t","i","e","s">>, <<".","j","s">> >>

\* url.split('?')[0].split('#')[0]
url_path(url) == Before(Before(url, <<"?">>), <<"#">>)

\* any(url_path.lower().endswith(ext) for ext in exts)
EndsWithAny(url, exts) ==
    Bind(Lower(url_path(url)), LAMBDA p :
        \E i \in 1..Len(exts) : EndsWith(p, exts[i]))

has_file_extension(url) == EndsWithAny(url, FileExtensions)

\* The same test without .lower(): a change of is_static_resource
is_static_resource_case_sensitive(url) ==
    Bind(url_path(url), LAMBDA p :
        \E i \in 1..Len(StaticExtensions) : EndsWith(p, StaticExtensions[i]))

is_static_resource(url) == EndsWithAny(url, StaticExtensions)

\* The bucket of a URL for which has_file_extension holds: the first
\* extension of the loop's list that ends the path, without its dot; None
\* when the loop ends without a match
bucket_ext(url) ==
    Bind(Lower(url_path(url)), LAMBDA p :
        LET Ends(i) == EndsWith(p, BucketExtensions[i])
        IN  IF \E i \in 1..Len(BucketExtensions) : Ends(i)
            THEN Tail(BucketExtensions[
                        CHOOSE i \in 1..Len(BucketExtensions) :
                            Ends(i) /\ \A j \in 1..(i - 1) : ~Ends(j)])
            ELSE None)

(***************************************************************************)
(* wayback.py: collect_wayback_urls                                        *)
(***************************************************************************)

\* The filter of the response's lines: all_urls
all_urls(lines) ==
    SelectSeq([i \in 1..Len(lines) |-> Strip(lines[i])],
              LAMBDA line : /\ line # <<>>
                            /\ ~StartsWith(line, <<"o","r","i","g","i","n","a","l">>)
                            /\ ~is_static_resource(line))

\* sorted() of a list, duplicates kept
RECURSIVE SortedList(_)
SortedList(list) ==
    Bind(list, LAMBDA l :
        IF l = <<>> THEN <<>>
        ELSE Bind(CHOOSE i \in 1..Len(l) :
                      \A j \in 1..Len(l) : l[i] = l[j] \/ StrLess(l[i], l[j]),
                  LAMBDA i : <<l[i]>> \o SortedList(SubSeq(l, 1, i - 1)
                                                    \o SubSeq(l, i + 1, Len(l)))))

\* sorted(all_urls), without set(): a change of unique_urls
unique_urls_not_unique(list) == SortedList(list)

\* sorted(list(set(all_urls)))
unique_urls(list) == Sorted(Range(list))

\* regular_urls: the URLs without a file extension, in order
regular_urls(urls) == SelectSeq(urls, LAMBDA u : ~has_file_extension(u))

\* file_urls_by_ext[ext]: the URLs filed under ext, in order
bucket(urls, ext) ==
    SelectSeq(urls, LAMBDA u : has_file_extension(u) /\ bucket_ext(u) = ext)

\* The keys of file_urls_by_ext in insertion order
RECURSIVE bucket_keys(_)
bucket_keys(urls) ==
    Bind(urls, LAMBDA us :
        IF us = <<>> THEN <<>>
        ELSE Bind(bucket_keys(SubSeq(us, 1, Len(us) - 1)), LAMBDA prev :
             Bind(bucket_ext(us[Len(us)]), LAMBDA ext :
                IF /\ has_file_extension(us[Len(us)])
                   /\ Truthy(ext)
                   /\ ext \notin Range(prev)
                THEN Append(prev, ext)
                ELSE prev)))

\* The files collect_wayback_urls opens for writing, in order
WaybackWrites(urls) ==
    Bind(bucket_keys(urls), LAMBDA keys :
        << [name |-> "wayback_urls.txt", lines |-> urls],
           [name |-> "wayback_url.txt", lines |-> regular_urls(urls)] >>
        \o [i \in 1..Len(keys) |->
              [name  |-> Text(keys[i]) \o ".txt",
               lines |-> bucket(urls, keys[i])]])

\* The file system after the first k of the writes into directory d
WriteFiles(files, d, writes, k) ==
    LET written == {<<d, writes[i].name>> : i \in 1..k}
        Latest(p) == CHOOSE i \in 1..k :
                        /\ <<d, writes[i].name>> = p
                        /\ \A j \in (i + 1)..k : <<d, writes[j].name>> # p
    IN  [p \in DOMAIN files \cup written |->
            IF p \in written THEN writes[Latest(p)].lines ELSE files[p]]

(***************************************************************************)
(* urllib.parse, as endpoint.py and parameter.py use it                    *)
(***************************************************************************)

Letters == Range(UpperCase) \cup Range(LowerCase)

\* scheme_chars of urllib.parse, within the alphabet
SchemeChars == Letters \cup Range(<<"0","1","2","3","4","5","6","7","8","9","+",".">>)

\* uses_params of urllib.parse
UsesParams ==
    { <<>>, <<"f","t","p">>, <<"h","d","l">>, <<"p","r","o","s","p","e","r","o">>, <<"h","t","t","p">>, <<"i","m","a","p">>, <<"h","t","t","p","s">>,
      <<"s","h","t","t","p">>, <<"r","t","s","p">>, <<"r","t","s","p","u">>, <<"s","i","p">>, <<"s","i","p","s">>, <<"m","m","s">>, <<"s","f","t","p">>,
      <<"t","e","l">> }

\* urlsplit: the text before the first ':' is a scheme
HasScheme(url) ==
    Bind(Find(url, <<":">>), LAMBDA i :
        /\ i > 1
        /\ url[1] \in Letters
        /\ \A j \in 1..(i - 1) : url[j] \in SchemeChars)

\* _splitnetloc(url, 2): the position, in the text after '//', of the first
\* of '/', '?' and '#', or one past its end
NetlocEnd(t) ==
    LET ends == {i \in 1..Len(t) : t[i] \in {"/", "?", "#"}}
    IN  IF ends = {} THEN Len(t) + 1
        ELSE CHOOSE i \in ends : \A j \in ends : i <= j

\* _splitparams(url): the position of the ';' that starts the parameters of
\* the last path segment, 0 when there is none
SplitParamsAt(u) ==
    Bind(RFind(u, <<"/">>), LAMBDA from :
        IF from # 0
        THEN Bind(Find(SubSeq(u, from, Len(u)), <<";">>), LAMBDA i :
                IF i = 0 THEN 0 ELSE from + i - 1)
        ELSE Find(u, <<";">>))

\* urlparse(url): ok is FALSE where urlsplit raises ValueError
urlparse(url) ==
    Bind(url, LAMBDA u0 :
    Bind(HasScheme(u0), LAMBDA has :
    Bind(IF has THEN Lower(Before(u0, <<":">>)) ELSE <<>>, LAMBDA scheme :
    Bind(IF has THEN After(u0, <<":">>) ELSE u0, LAMBDA u1 :
    Bind(StartsWith(u1, <<"/","/">>), LAMBDA slash :
    Bind(SubSeq(u1, 3, Len(u1)), LAMBDA t :
    Bind(NetlocEnd(t), LAMBDA e :
    Bind(IF slash THEN SubSeq(t, 1, e - 1) ELSE <<>>, LAMBDA netloc :
    Bind(IF slash THEN SubSeq(t, e, Len(t)) ELSE u1, LAMBDA u2 :
    Bind(Before(u2, <<"#">>), LAMBDA u3 :
    Bind(Before(u3, <<"?">>), LAMBDA u4 :
    Bind(IF scheme \in UsesParams /\ Contains(u4, <<";">>)
         THEN SplitParamsAt(u4) ELSE 0, LAMBDA cut :
        [ok       |-> ~ \/ (Contains(netloc, <<"[">>) /\ ~Contains(netloc, <<"]">>))
                        \/ (Contains(netloc, <<"]">>) /\ ~Contains(netloc, <<"[">>)),
         scheme   |-> scheme,
         netloc   |-> netloc,
         path     |-> IF cut = 0 THEN u4 ELSE SubSeq(u4, 1, cut - 1),
         params   |-> IF cut = 0 THEN <<>> ELSE SubSeq(u4, cut + 1, Len(u4)),
         query    |-> After(u3, <<"?">>),
         fragment |-> After(u2, <<"#">>)]))))))))))))

\* The keys of parse_qs(qs): keep_blank_values and strict_parsing are False,
\* so a field without '=' or with an empty value is skipped; '+' in a name
\* is decoded to a space
parse_qs_keys(qs) ==
    Bind(IF qs = <<>> THEN <<>> ELSE Split(qs, <<"&">>), LAMBDA fields :
        { Replace(Before(field, <<"=">>), <<"+">>, <<" ">>) :
            field \in {f \in Range(fields) :
                          /\ f # <<>>
                          /\ Contains(f, <<"=">>)
                          /\ After(f, <<"=">>) # <<>>} })

(***************************************************************************)
(* endpoint.py                                                             *)
(***************************************************************************)

\* [part for part in path.split('/') if part]
path_parts(path) == SelectSeq(Split(path, <<"/">>), LAMBDA part : part # <<>>)

\* extract_endpoint keeping the whole path: a change of extract_endpoint
extract_endpoint_whole_path(url) ==
    Bind(urlparse(url), LAMBDA parsed :
        IF ~parsed.ok THEN None
        ELSE IF path_parts(parsed.path) # <<>>
             THEN parsed.netloc \o parsed.path \o <<"/">>
             ELSE parsed.netloc \o <<"/">>)

extract_endpoint(url) ==
    Bind(urlparse(url), LAMBDA parsed :
        IF ~parsed.ok THEN None
        ELSE Bind(path_parts(parsed.path), LAMBDA parts :
                IF parts # <<>>
                THEN parsed.netloc \o <<"/">> \o parts[1] \o <<"/">>
                ELSE parsed.netloc \o <<"/">>))

\* One turn of the reading loop of process_domain_endpoints
add_endpoint(endpoints, line) ==
    Bind(Strip(line), LAMBDA url :
        IF url = <<>> THEN endpoints
        ELSE Bind(extract_endpoint(url), LAMBDA endpoint :
                IF Truthy(endpoint) THEN endpoints \cup {endpoint}
                ELSE endpoints))

\* The set endpoints after the reading loop
read_endpoints(lines) ==
    UNION {add_endpoint({}, lines[i]) : i \in 1..Len(lines)}

\* sorted(list(endpoints))
sorted_endpoints(lines) == Sorted(read_endpoints(lines))

(***************************************************************************)
(* parameter.py                                                            *)
(***************************************************************************)

\* The name filter of extract_parameters
clean_name_kept(name) ==
    /\ name # <<>>
    /\ ~\E invalid \in {<<"h","t","t","p">>, <<"h","t","t","p","s">>, <<"/">>, <<"\\">>, <<" ">>} :
          Contains(name, invalid)
    /\ ~\E entity \in {<<"a","m","p",";">>, <<"n","b","s","p",";">>, <<"g","t",";">>, <<"l","t",";">>} :
          StartsWith(name, entity)

extract_parameters(url) ==
    Bind(urlparse(Replace(url, <<"&","a","m","p",";">>, <<"&">>)), LAMBDA parsed :
        IF ~parsed.ok THEN {}
        ELSE { clean_name \in {Strip(name) : name \in parse_qs_keys(parsed.query)} :
                 clean_name_kept(clean_name) })

\* One turn of the reading loop of process_domain_parameters
add_parameters(parameters, line) ==
    Bind(Strip(line), LAMBDA url :
        IF url = <<>> THEN parameters
        ELSE parameters \cup extract_parameters(url))

\* The set parameters after the reading loop
read_parameters(lines) ==
    UNION {add_parameters({}, lines[i]) : i \in 1..Len(lines)}

\* The names in descending order
RECURSIVE SortedDescending(_)
SortedDescending(S) ==
    Bind(S, LAMBDA T :
        IF T = {} THEN <<>>
        ELSE Bind(CHOOSE x \in T : \A y \in T : x = y \/ StrLess(y, x),
                  LAMBDA m : <<m>> \o SortedDescending(T \ {m})))

\* The names sorted the other way: a change of sorted_parameters
sorted_parameters_descending(lines) ==
    SortedDescending({p \in read_parameters(lines) : Strip(p) # <<>>})

\* sorted([param for param in parameters if param.strip()])
sorted_parameters(lines) ==
    Sorted({p \in read_parameters(lines) : Strip(p) # <<>>})

\* The lines written to parameters.txt: param + '='
parameter_lines(names) == [i \in 1..Len(names) |-> names[i] \o <<"=">>]

(***************************************************************************)
(* Inputs                                                                  *)
(***************************************************************************)

\* The most lines a CDX response holds
MaxLines == 2

\* The lines a CDX response is made of
LinePool ==
    { <<"o","r","i","g","i","n","a","l">>,
      <<"o","r","i","g","i","n","a","l","s","/","p">>,
      <<"x","/","a",".","P","N","G">>,
      <<"x","/","b",".","M","I","N",".","j","s">>,
      <<"x","/","i",".","h","t","m","l">>,
      <<"x","/","a",".","p","d","f">>,
      <<" ","x","/","a",".","p","d","f"," ">>,
      <<"x","/","?","i","d","=","1","&","i","d","2","=","2">>,
      <<" ">> }

\* response.text.strip().split('\n') of the responses of up to MaxLines lines
Responses == UNION {[1..n -> LinePool] : n \in 0..MaxLines}

\* The responses of the two-domain runs
DriverResponses ==
    { << <<"x","/","a",".","p","d","f">>, <<"x","/","?","i","d","=","1","&","i","d","2","=","2">> >>,
      << <<"x","/","i",".","h","t","m","l">> >>,
      << <<"x","/","b",".","M","I","N",".","j","s">> >> }

\* The URLs extract_endpoint and extract_parameters are called with
UrlBases == { <<>>, <<"x",".","c","o","m">>, <<"h","t","t","p",":","/","/","x",".","c","o","m">>, <<"/","/","h">>, <<"h","t","t","p",":","/","/","[","x">> }

UrlPaths == { <<>>, <<"/">>, <<"/","a","/","b","/","c">>, <<"/","/","a","/">>, <<"/","a",";","p","/","b",";","q">> }

UrlQueries ==
    { <<>>, <<"?","q","=","1">>, <<"?","r","e","d","i","r","=","h","t","t","p",":","/","/","e","v","i","l",".","c","o","m","&","o","k","=","1">>, <<"?","a","=","&","b","=","2">>,
      <<"?","d","e","b","u","g">>, <<"?","a","=","1","&","a","m","p",";","b","=","2">>, <<"?","x","=","1","&","a","m","p",";","a","m","p",";","y","=","2">>,
      <<"?"," ","a"," ","=","1","&","c","/","d","=","2">>, <<"?","a","+","b","=","1","&","i","d","=","1","&","i","d","=","2">> }

UrlFragments == { <<>>, <<"#","f">>, <<"#","f","?","z","=","1">> }

UrlPool ==
    { b \o p \o q \o f :
        b \in UrlBases, p \in UrlPaths, q \in UrlQueries, f \in UrlFragments }

Scripts == {"wayback.py", "endpoint.py", "parameter.py"}

(***************************************************************************)
(* State                                                                   *)
(*   domains   the domain list main() read from its argument               *)
(*   cdx       the lines the CDX index answers with, per domain            *)
(*   fs        the files on disk: <<directory, name>> -> lines             *)
(*   fetched   the lines of the last response collected, per domain        *)
(*   script    the script running, or last run                             *)
(*   pc        "idle" between runs, "loop" inside main()'s loop            *)
(*   idx       the position of the loop in domains                         *)
(*   total     total_endpoints / total_parameters                          *)
(*   log       what the run reported per domain: outcome and count         *)
(*   exitCode  the exit code of the last run, -1 while none has ended      *)
(*   arg, ret, acc   a direct call of an extractor: its argument, its      *)
(*             result, and the sets the callers' loops accumulate          *)
(***************************************************************************)

NoFiles == [p \in {} |-> <<>>]

NoCall == [op |-> "none", value |-> {}]

NoSets == [endpoints |-> {}, parameters |-> {}]

InitRun ==
    /\ fs = NoFiles
    /\ fetched = [d \in Range(domains) |-> <<>>]
    /\ script = "none"
    /\ pc = "idle"
    /\ idx = 0
    /\ total = 0
    /\ log = <<>>
    /\ exitCode = -1
    /\ ret = NoCall
    /\ acc = NoSets

\* Two domains, a few responses: the driver loop
Init ==
    /\ domains = <<"a.example", "b.example">>
    /\ cdx \in [Range(domains) -> DriverResponses]
    /\ arg = <<>>
    /\ InitRun

\* One domain, every response of up to MaxLines lines: the content
InitContent ==
    /\ domains = <<"a.example">>
    /\ cdx \in [Range(domains) -> Responses]
    /\ arg = <<>>
    /\ InitRun

\* One domain, a few responses: repeated runs over a changing index
InitArchive ==
    /\ domains = <<"a.example">>
    /\ cdx \in [Range(domains) -> DriverResponses]
    /\ arg = <<>>
    /\ InitRun

\* A direct call of the extractors on one URL
InitExtract ==
    /\ domains = <<>>
    /\ cdx = <<>>
    /\ InitRun
    /\ arg \in UrlPool

(***************************************************************************)
(* main() of the three scripts                                             *)
(***************************************************************************)

Logged(d, outcome, count) ==
    Append(log, [domain |-> d, outcome |-> outcome, count |-> count])

InLoop(s) == pc = "loop" /\ script = s /\ idx <= Len(domains)

wayback_file(d) == <<d, "wayback_urls.txt">>

\* main(): the list is read and the loop entered
StartRun(s) ==
    /\ pc = "idle"
    /\ script' = s
    /\ pc' = "loop"
    /\ idx' = 1
    /\ total' = 0
    /\ log' = <<>>
    /\ exitCode' = -1
    /\ UNCHANGED <<domains, cdx, fs, fetched, arg, ret, acc>>

\* main(): the loop is over, "Complete!"
Finish ==
    /\ pc = "loop"
    /\ idx > Len(domains)
    /\ pc' = "idle"
    /\ exitCode' = 0
    /\ UNCHANGED <<domains, cdx, fs, fetched, script, idx, total, log, arg, ret, acc>>

\* The index stops returning its first record (between runs)
ArchiveForgets(d) ==
    /\ pc = "idle"
    /\ cdx[d] # <<>>
    /\ cdx' = [cdx EXCEPT ![d] = Tail(cdx[d])]
    /\ UNCHANGED <<domains, fs, fetched, script, pc, idx, total, log, exitCode,
                   arg, ret, acc>>

(***************************************************************************)
(* wayback.py: one call of collect_wayback_urls                            *)
(***************************************************************************)

\* The request exception escaping collect_wayback_urls: a change of
\* WaybackFetchFails
WaybackFetchFailsUncaught ==
    /\ InLoop("wayback.py")
    /\ log' = Logged(domains[idx], "source_error", 0)
    /\ pc' = "idle"
    /\ exitCode' = 1
    /\ UNCHANGED <<domains, cdx, fs, fetched, script, idx, total, arg, ret, acc>>

\* requests.get or raise_for_status raises: caught, 0 returned
WaybackFetchFails ==
    /\ InLoop("wayback.py")
    /\ log' = Logged(domains[idx], "source_error", 0)
    /\ idx' = idx + 1
    /\ UNCHANGED <<domains, cdx, fs, fetched, script, pc, total, exitCode,
                   arg, ret, acc>>

\* The response is filtered, sorted, classified and every file written
WaybackCollect ==
    /\ InLoop("wayback.py")
    /\ \E urls \in {unique_urls(all_urls(cdx[domains[idx]]))} :
       \E writes \in {WaybackWrites(urls)} :
           /\ fs' = WriteFiles(fs, domains[idx], writes, Len(writes))
           /\ fetched' = [fetched EXCEPT ![domains[idx]] = cdx[domains[idx]]]
           /\ log' = Logged(domains[idx], "ok", Len(urls))
    /\ idx' = idx + 1
    /\ UNCHANGED <<domains, cdx, script, pc, total, exitCode, arg, ret, acc>>

\* os.makedirs (k = 0) or the open of the (k+1)-th file raises OSError,
\* which is no RequestException: the exception leaves main() and the
\* interpreter exits with code 1
WaybackWriteFails ==
    /\ InLoop("wayback.py")
    /\ \E writes \in {WaybackWrites(unique_urls(all_urls(cdx[domains[idx]])))} :
       \E k \in 0..(Len(writes) - 1) :
           fs' = WriteFiles(fs, domains[idx], writes, k)
    /\ log' = Logged(domains[idx], "write_error", 0)
    /\ pc' = "idle"
    /\ exitCode' = 1
    /\ UNCHANGED <<domains, cdx, fetched, script, idx, total, arg, ret, acc>>

(***************************************************************************)
(* endpoint.py: one call of process_domain_endpoints                       *)
(***************************************************************************)

\* os.path.exists(wayback_file) is False: 0 returned
EndpointFileMissing ==
    /\ InLoop("endpoint.py")
    /\ wayback_file(domains[idx]) \notin DOMAIN fs
    /\ log' = Logged(domains[idx], "source_error", 0)
    /\ idx' = idx + 1
    /\ UNCHANGED <<domains, cdx, fs, fetched, script, pc, total, exitCode,
                   arg, ret, acc>>

\* Reading wayback_urls.txt raises: caught, 0 returned
EndpointReadFails ==
    /\ InLoop("endpoint.py")
    /\ wayback_file(domains[idx]) \in DOMAIN fs
    /\ log' = Logged(domains[idx], "source_error", 0)
    /\ idx' = idx + 1
    /\ UNCHANGED <<domains, cdx, fs, fetched, script, pc, total, exitCode,
                   arg, ret, acc>>

\* The endpoints are read, sorted and saved
EndpointSave ==
    /\ InLoop("endpoint.py")
    /\ wayback_file(domains[idx]) \in DOMAIN fs
    /\ \E lines \in {sorted_endpoints(fs[wayback_file(domains[idx])])} :
           /\ fs' = WriteFiles(fs, domains[idx],
                       <<[name |-> "endpoints.txt", lines |-> lines]>>, 1)
           /\ log' = Logged(domains[idx], "ok", Len(lines))
           /\ total' = total + Len(lines)
    /\ idx' = idx + 1
    /\ UNCHANGED <<domains, cdx, fetched, script, pc, exitCode, arg, ret, acc>>

\* The open of endpoints.txt raises: caught, 0 returned
EndpointSaveFails ==
    /\ InLoop("endpoint.py")
    /\ wayback_file(domains[idx]) \in DOMAIN fs
    /\ log' = Logged(domains[idx], "write_error", 0)
    /\ idx' = idx + 1
    /\ UNCHANGED <<domains, cdx, fs, fetched, script, pc, total, exitCode,
                   arg, ret, acc>>

(***************************************************************************)
(* parameter.py: one call of process_domain_parameters                     *)
(***************************************************************************)

\* os.path.exists(wayback_file) is False: 0 returned
ParameterFileMissing ==
    /\ InLoop("parameter.py")
    /\ wayback_file(domains[idx]) \notin DOMAIN fs
    /\ log' = Logged(domains[idx], "source_error", 0)
    /\ idx' = idx + 1
    /\ UNCHANGED <<domains, cdx, fs, fetched, script, pc, total, exitCode,
                   arg, ret, acc>>

\* Reading wayback_urls.txt raises: caught, 0 returned
ParameterReadFails ==
    /\ InLoop("parameter.py")
    /\ wayback_file(domains[idx]) \in DOMAIN fs
    /\ log' = Logged(domains[idx], "source_error", 0)
    /\ idx' = idx + 1
    /\ UNCHANGED <<domains, cdx, fs, fetched, script, pc, total, exitCode,
                   arg, ret, acc>>

\* The parameter names are read, sorted and saved, each followed by '='
ParameterSave ==
    /\ InLoop("parameter.py")
    /\ wayback_file(domains[idx]) \in DOMAIN fs
    /\ \E names \in {sorted_parameters(fs[wayback_file(domains[idx])])} :
           /\ fs' = WriteFiles(fs, domains[idx],
                       <<[name |-> "parameters.txt", lines |-> parameter_lines(names)]>>, 1)
           /\ log' = Logged(domains[idx], "ok", Len(names))
           /\ total' = total + Len(names)
    /\ idx' = idx + 1
    /\ UNCHANGED <<domains, cdx, fetched, script, pc, exitCode, arg, ret, acc>>

\* The open of parameters.txt raises: caught, 0 returned
ParameterSaveFails ==
    /\ InLoop("parameter.py")
    /\ wayback_file(domains[idx]) \in DOMAIN fs
    /\ log' = Logged(domains[idx], "write_error", 0)
    /\ idx' = idx + 1
    /\ UNCHANGED <<domains, cdx, fs, fetched, script, pc, total, exitCode,
                   arg, ret, acc>>

(***************************************************************************)
(* Direct calls of the extractors                                          *)
(***************************************************************************)

\* endpoint = extract_endpoint(url); if endpoint: endpoints.add(endpoint)
CallExtractEndpoint ==
    /\ pc = "idle"
    /\ ret.op # "extract_endpoint"
    /\ ret' = [op |-> "extract_endpoint", value |-> extract_endpoint(arg)]
    /\ acc' = [acc EXCEPT !.endpoints = add_endpoint(@, arg)]
    /\ UNCHANGED <<domains, cdx, fs, fetched, script, pc, idx, total, log,
                   exitCode, arg>>

\* url_params = extract_parameters(url); parameters.update(url_params)
CallExtractParameters ==
    /\ pc = "idle"
    /\ ret.op # "extract_parameters"
    /\ ret' = [op |-> "extract_parameters", value |-> extract_parameters(arg)]
    /\ acc' = [acc EXCEPT !.parameters = add_parameters(@, arg)]
    /\ UNCHANGED <<domains, cdx, fs, fetched, script, pc, idx, total, log,
                   exitCode, arg>>

(***************************************************************************)
(* Specifications                                                          *)
(***************************************************************************)

Next ==
    \/ \E s \in Scripts : StartRun(s)
    \/ Finish
    \/ WaybackFetchFails
    \/ WaybackCollect
    \/ WaybackWriteFails
    \/ EndpointFileMissing
    \/ EndpointReadFails
    \/ EndpointSave
    \/ EndpointSaveFails
    \/ ParameterFileMissing
    \/ ParameterReadFails
    \/ ParameterSave
    \/ ParameterSaveFails

\* The runs, with the index changing between them
NextArchive == Next \/ \E d \in Range(domains) : ArchiveForgets(d)

NextExtract == CallExtractEndpoint \/ CallExtractParameters

\* The three scripts run, in any order and any number of times, over two
\* domains
Spec == Init /\ [][Next]_vars

\* The same runs over one domain and every response of the bound
SpecContent == InitContent /\ [][Next]_vars

\* Runs over one domain whose index answer shrinks between runs
SpecArchive == InitArchive /\ [][NextArchive]_vars

\* extract_endpoint and extract_parameters called on each URL of UrlPool
SpecExtract == InitExtract /\ [][NextExtract]_vars

(***************************************************************************)
(* Properties                                                              *)
(***************************************************************************)

Exists(d, name) == <<d, name>> \in DOMAIN fs

File(d, name) == fs[<<d, name>>]

\* The files of a domain directory other than the four fixed names
ExtFilesOf(d) ==
    {p[2] : p \in {q \in DOMAIN fs : q[1] = d}}
    \ {"wayback_urls.txt", "wayback_url.txt", "endpoints.txt", "parameters.txt"}

\* The run in progress, or just ended, is a run of script s in which the
\* call for domain d returned normally with its files written
Processed(s, d) ==
    /\ script = s
    /\ \E i \in 1..Len(log) : log[i].domain = d /\ log[i].outcome = "ok"

\* Each line is below the next in code-point order
StrictlyAscending(lines) ==
    \A i \in 1..(Len(lines) - 1) : StrLess(lines[i], lines[i + 1])

\* The path of a line, lower-cased, ends with a static-resource suffix
StaticSuffix(line) == EndsWithAny(line, StaticExtensions)

\* The lines of the files wayback.py has written into the directory of d
Stored(d) ==
    UNION {Range(fs[p]) :
             p \in {q \in DOMAIN fs :
                      q[1] = d /\ q[2] \notin {"endpoints.txt", "parameters.txt"}}}

\* C1: a response line with a static-resource suffix is in no file that
\* wayback.py writes, and endpoints.txt and parameters.txt hold exactly what
\* the extractors give on the lines of wayback_urls.txt.
C1_StaticNeverStored ==
    \A d \in Range(domains) :
        /\ \A u \in Stored(d) : ~StaticSuffix(u)
        /\ \A j \in 1..Len(fetched[d]) :
              StaticSuffix(fetched[d][j]) =>
                  /\ fetched[d][j] \notin Stored(d)
                  /\ Strip(fetched[d][j]) \notin Stored(d)
        /\ Processed("endpoint.py", d) =>
              Range(File(d, "endpoints.txt")) =
                  {extract_endpoint(u) : u \in Range(File(d, "wayback_urls.txt"))} \ {None}
        /\ Processed("parameter.py", d) =>
              Range(File(d, "parameters.txt")) =
                  {n \o <<"=">> : n \in UNION {extract_parameters(u) :
                                              u \in Range(File(d, "wayback_urls.txt"))}}

\* C1 witness: the response held a static line partly in upper case beside a URL
\* with parameters, and all three scripts have written their files.
C1_Witness ==
    \E d \in Range(domains) :
        /\ <<"x","/","b",".","M","I","N",".","j","s">> \in Range(fetched[d])
        /\ Processed("parameter.py", d)
        /\ Exists(d, "endpoints.txt")
        /\ File(d, "endpoints.txt") # <<>>
        /\ File(d, "parameters.txt") # <<>>

\* What C2 says of the state: the log follows the list, a source failure
\* counts 0, and a run ends only by a write failure or after the last domain.
C2_State ==
    /\ \A i \in 1..Len(log) :
          /\ log[i].domain = domains[i]
          /\ log[i].outcome = "source_error" => log[i].count = 0
    /\ (log # <<>> /\ log[Len(log)].outcome = "source_error") =>
          (pc = "loop" \/ exitCode = 0)
    /\ (pc = "idle" /\ exitCode = 0) => Len(log) = Len(domains)

\* What C2 says of a step: the call that fails at its source writes no file,
\* adds nothing to the total and moves the loop to the next domain.
C2_Step ==
    (/\ Len(log') = Len(log) + 1
     /\ log'[Len(log')].outcome = "source_error")
    => /\ fs' = fs
       /\ total' = total
       /\ pc' = "loop"
       /\ idx' = idx + 1

\* C2: in each script a domain whose source fails (the fetch in wayback.py,
\* a missing or unreadable wayback_urls.txt in the other two) counts 0,
\* writes no file, and the loop goes on to the later domains in list order.
C2_SourceFailureIsolated == []C2_State /\ [][C2_Step]_vars

\* C2 witness: the first domain failed at its source and the second was
\* processed with its files written.
C2_Witness ==
    /\ Len(log) = 2
    /\ log[1].outcome = "source_error"
    /\ log[2].outcome = "ok"
    /\ log[2].count > 0

\* C3: a failure to create the directory or to write a file is not fatal:
\* the domain counts 0, the loop goes on and the run exits with code 0.
C3_WriteFailureNotFatal ==
    \A i \in 1..Len(log) :
        log[i].outcome = "write_error" =>
            /\ log[i].count = 0
            /\ i = Len(log) => (pc = "loop" \/ exitCode = 0)
            /\ (pc = "idle") => (exitCode = 0 /\ Len(log) = Len(domains))

C5_LinesAscending ==
    \A d \in Range(domains) :
        Exists(d, "parameters.txt") => StrictlyAscending(File(d, "parameters.txt"))

\* The line without its last character
WithoutLast(line) == SubSeq(line, 1, Len(line) - 1)

\* C5 amended: every line of parameters.txt is a name followed by '=', and
\* the names, that is the lines without the '=', are strictly ascending, so
\* no line repeats.
C5_NamesAscending ==
    \A d \in Range(domains) :
        Exists(d, "parameters.txt") =>
            /\ \A i \in 1..Len(File(d, "parameters.txt")) :
                  EndsWith(File(d, "parameters.txt")[i], <<"=">>)
            /\ StrictlyAscending(
                  [i \in 1..Len(File(d, "parameters.txt")) |->
                      WithoutLast(File(d, "parameters.txt")[i])])

\* C5 witness: parameters.txt holds 'id=' and then 'id2=', a name before
\* the longer name it is a prefix of.
C5_Witness ==
    \E d \in Range(domains) :
        /\ Exists(d, "parameters.txt")
        /\ File(d, "parameters.txt") = << <<"i","d","=">>, <<"i","d","2","=">> >>

\* C6: after a successful wayback.py call every URL of wayback_urls.txt is
\* in exactly one of wayback_url.txt and the <ext>.txt files, and the line
\* counts add up.
C6_RegularAndBucketsPartition ==
    \A d \in Range(domains) :
        Processed("wayback.py", d) =>
            /\ \A u \in Range(File(d, "wayback_urls.txt")) :
                  Cardinality(
                      {name \in ExtFilesOf(d) \cup {"wayback_url.txt"} :
                          u \in Range(File(d, name))}) = 1
            /\ Len(File(d, "wayback_urls.txt")) =
                  Len(File(d, "wayback_url.txt"))
                  + Cardinality(UNION {{<<name, i>> : i \in 1..Len(File(d, name))} :
                                          name \in ExtFilesOf(d)})

\* The parameter names C7 describes: the fields of the query string, each
\* cut at its first '=', decoded and trimmed, whatever the value, less the
\* names the filter drops.
C7_Names(url) ==
    LET query  == urlparse(Replace(url, <<"&","a","m","p",";">>, <<"&">>)).query
        fields == IF query = <<>> THEN {} ELSE Range(Split(query, <<"&">>))
        names  == {Strip(Replace(Before(f, <<"=">>), <<"+">>, <<" ">>)) : f \in fields}
    IN  {n \in names : clean_name_kept(n)}

\* C7: extract_parameters returns the filtered names of the query string
\* whatever their values, an empty or absent value included.
C7_NamesWhateverTheValue ==
    ret.op = "extract_parameters" =>
        (urlparse(Replace(arg, <<"&","a","m","p",";">>, <<"&">>)).ok => ret.value = C7_Names(arg))

\* The first non-empty segment of a path, the empty str when there is none
FirstSegment(path) ==
    LET solid == {i \in 1..Len(path) : path[i] # "/"}
        first == CHOOSE i \in solid : \A j \in solid : i <= j
        stops == {i \in first..Len(path) : path[i] = "/"}
    IN  IF solid = {} THEN <<>>
        ELSE IF stops = {} THEN SubSeq(path, first, Len(path))
        ELSE SubSeq(path, first, (CHOOSE i \in stops : \A j \in stops : i <= j) - 1)

\* C8: for a URL that parses, extract_endpoint is the host, '/', and the
\* first non-empty path segment followed by '/' when there is one: it ends
\* with '/', holds no deeper segment and nothing of the query or fragment;
\* on a parse failure it is None and nothing is added to the endpoints.
C8_EndpointIsHostAndFirstSegment ==
    ret.op = "extract_endpoint" =>
        IF ~urlparse(arg).ok
        THEN ret.value = None /\ acc.endpoints = {}
        ELSE /\ ret.value =
                   urlparse(arg).netloc \o <<"/">>
                   \o (IF FirstSegment(urlparse(arg).path) = <<>> THEN <<>>
                       ELSE FirstSegment(urlparse(arg).path) \o <<"/">>)
             /\ EndsWith(ret.value, <<"/">>)
             /\ ~Contains(ret.value, <<"?">>)
             /\ ~Contains(ret.value, <<"#">>)
             /\ arg = <<"h","t","t","p",":","/","/","x",".","c","o","m","/","a","/","b","/","c","?","q","=","1">> => ret.value = <<"x",".","c","o","m","/","a","/">>
             /\ arg \in {<<"h","t","t","p",":","/","/","x",".","c","o","m","/">>, <<"h","t","t","p",":","/","/","x",".","c","o","m">>} => ret.value = <<"x",".","c","o","m","/">>
             /\ arg # <<>> => acc.endpoints = {ret.value}

\* C8 witness: extract_endpoint has been called on a URL with three path
\* segments and a query.
C8_Witness ==
    /\ ret.op = "extract_endpoint"
    /\ arg = <<"h","t","t","p",":","/","/","x",".","c","o","m","/","a","/","b","/","c","?","q","=","1">>
    /\ ret.value = <<"x",".","c","o","m","/","a","/">>
    /\ acc.endpoints = {<<"x",".","c","o","m","/","a","/">>}

\* C9: every response line that, trimmed, is neither empty nor the header
\* 'original' nor a static resource is in wayback_urls.txt.
C9_OnlyHeaderAndEmptyDropped ==
    \A d \in Range(domains) :
        Processed("wayback.py", d) =>
            \A i \in 1..Len(fetched[d]) :
                (/\ Strip(fetched[d][i]) # <<>>
                 /\ Strip(fetched[d][i]) # <<"o","r","i","g","i","n","a","l">>
                 /\ ~StaticSuffix(Strip(fetched[d][i])))
                => Strip(fetched[d][i]) \in Range(File(d, "wayback_urls.txt"))

\* C10: after a successful wayback.py call the <ext>.txt files of the
\* directory are the buckets that call filled, each with that call's URLs.
C10_OnlyLatestBuckets ==
    \A d \in Range(domains) :
        Processed("wayback.py", d) =>
            LET urls == unique_urls(all_urls(fetched[d]))
            IN  /\ ExtFilesOf(d) =
                      {Text(ext) \o ".txt" : ext \in Range(bucket_keys(urls))}
                /\ \A ext \in Range(bucket_keys(urls)) :
                      File(d, Text(ext) \o ".txt") = bucket(urls, ext)

====
